---- MODULE Spec2Model ----
(***************************************************************************)
(* Model of AuthenticationController (src/src/controller/                  *)
(* authen_controller.py): the in-memory session table, login, logout,      *)
(* verify_session and get_user_by_session, the wall clock they read and    *)
(* the user store they query.                                              *)
(*                                                                         *)
(* Encoding of Python values:                                              *)
(*   None            is  <<>>           (None)                             *)
(*   a non-None x    is  <<x>>          (Some(x)) wherever the code may    *)
(*                                      also hold None in that place       *)
(*   a dict          is  a record / a function from keys to values         *)
(*   sha256(x).hexdigest() is [sha256 |-> x]: SHA-256 is taken to be       *)
(*                   collision free, so two digests are equal exactly      *)
(*                   when the hashed strings are equal                     *)
(*   an exception    is  [raised |-> its class], in the place of the value *)
(*                   the call would have returned                          *)
(*   a datetime      is  a number of minutes                               *)
(*                                                                         *)
(* datetime.now() is the local wall clock.  Nothing keeps it from being    *)
(* set, or from jumping at a change of daylight saving time, between two   *)
(* calls or between two reads of one call: each read may return any clock  *)
(* value, later or earlier than the one before.                            *)
(***************************************************************************)
EXTENDS Integers, Sequences, FiniteSets, TLC

VARIABLES
    user_model,       \* self.user_model: None or Some(the object given)
    active_sessions,  \* self.active_sessions: token -> session dict
    users,            \* the user store behind user_model: username -> record
    now,              \* the wall clock: the value datetime.now() would return
    call,             \* the last operation invoked, with its arguments (and,
                      \*   for verify_session on a tracked token, the idle
                      \*   time line 179 measured)
    result,           \* what that operation returned or raised (None for a
                      \*   non-call)
    threads,          \* SpecConc only: each concurrent caller's call and position
    detached,         \* SpecConc only: session dicts removed from the table
                      \*   that a caller still holds a reference to
    start_sessions    \* SpecConc only: the table when the callers started

vars == <<user_model, active_sessions, users, now, call, result,
          threads, detached, start_sessions>>

None == <<>>
Some(x) == <<x>>

---------------------------------------------------------------------------
(* Bounds and constants *)

\* timedelta(minutes=30), line 179
SESSION_TIMEOUT == 30

ClockStep == SESSION_TIMEOUT \div 2

\* the values the clock shows: any two of them lie less than, exactly or
\* more than the timeout apart, in either direction
ClockValues == {0, ClockStep, ClockStep + SESSION_TIMEOUT}

\* no more than this many sessions are held at once
MaxSessions == 2

---------------------------------------------------------------------------
(* The user store (external collaborator) *)

sha256(data) == [sha256 |-> data]

Raise(exception) == [raised |-> exception]
Return(value) == [returned |-> value]
IsRaise(outcome) == "raised" \in DOMAIN outcome

\* a str holding a lone surrogate, such as json.loads('"\\ud800"') returns
LoneSurrogate == "<U+D800>"

\* str.encode(): UTF-8 has no encoding for a lone surrogate
Encodable(string) == string # LoneSurrogate

\* AuthenticationController._hash_password: the digest, or the exception
\* that password.encode() raises
_hash_password(password) ==
    IF Encodable(password) THEN sha256(password)
    ELSE Raise("UnicodeEncodeError")

UserRecord(id, pw, type, status) ==
    [user_id |-> id, password_hash |-> _hash_password(pw),
     user_type |-> type, status |-> status]

InitialUsers ==
    [u \in {"alice"} |-> UserRecord(1, "pwA", "Admin", "active")]

\* the users whose record the store's owner changes
Managed == {"alice"}

Statuses == {"active", "inactive"}

\* the records the store holds for a user over time: as created, and
\* deactivated with the role taken away
StoreVersions(u) ==
    {[InitialUsers[u] EXCEPT !.status = st,
                             !.user_type = IF st = "active" THEN @ ELSE "Member"] :
        st \in Statuses}

\* user_model.get_user_by_username(username): the record, or None
get_user_by_username(store, username) ==
    IF username \in DOMAIN store THEN Some(store[username]) ELSE None

\* the arguments login is called with
UsernameArgs == {None, Some("alice"), Some("ghost")}
PasswordArgs == {Some(""), Some("pwA"), Some("pwB"), Some(LoneSurrogate)}

\* the pairs of them tried: a missing username with alice's password, alice
\* with every password (empty, right, wrong, not encodable), and an unknown
\* username with the password that cannot be encoded
LoginArgs ==
    {a \in UsernameArgs \X PasswordArgs :
        /\ a[1] = None => a[2] = Some("pwA")
        /\ a[1] = Some("ghost") => a[2] = Some(LoneSurrogate)}

\* the objects set_user_model is given: nothing, and the user store
UserModelArgs == {None, Some("user_model")}

---------------------------------------------------------------------------
(* Pure helpers of the controller *)

\* faulty variant: only None is rejected, "" passes the input check
Falsy_NoneOnly(s) == s = None

\* Python truthiness of an optional string or object: None, "" and an
\* object whose __len__() is 0 (written Some("empty_user_model")) are falsy
Falsy(s) == s = None \/ s = Some("") \/ s = Some("empty_user_model")

\* AuthenticationController._verify_password: whether the digests are
\* equal, or the exception of _hash_password
_verify_password(password, password_hash) ==
    LET hashed == _hash_password(password) IN
    IF IsRaise(hashed) THEN hashed
    ELSE Return(hashed = password_hash)

\* AuthenticationController._generate_session_token, with the clock value
\* that its datetime.now() read: sha256(f"{user_id}_{timestamp}")
_generate_session_token(user_id, timestamp) == sha256(<<user_id, timestamp>>)

\* faulty variants of the expiry test: twice the timeout; the comparison
\* turned around
SessionExpired_Doubled(t, last_activity) ==
    (t - last_activity) > 2 * SESSION_TIMEOUT
SessionExpired_Inverted(t, last_activity) ==
    (t - last_activity) < SESSION_TIMEOUT
\* faulty variant: a session idle for exactly the timeout is expired
SessionExpired_AtBoundary(t, last_activity) ==
    (t - last_activity) >= SESSION_TIMEOUT

\* line 179: (datetime.now() - session['last_activity']) > timedelta(minutes=30)
SessionExpired(t, last_activity) == (t - last_activity) > SESSION_TIMEOUT

\* del d[k]
DictDel(d, k) == [x \in (DOMAIN d) \ {k} |-> d[x]]

\* faulty variants: the assignment replaces the whole dict; the assignment
\* is lost
DictSet_Clobber(d, k, v) == [x \in {k} |-> v]
DictSet_Lost(d, k, v) == d

\* d[k] = v
DictSet(d, k, v) == [x \in (DOMAIN d) \cup {k} |-> IF x = k THEN v ELSE d[x]]

LoginFailure(message) ==
    [status |-> "failure", message |-> message, user_id |-> None,
     user_type |-> None, session_token |-> None]

\* the early returns of login, lines 55-61, 65-71, 77-83, 87-93, 97-103
InvalidInputResult == LoginFailure("Username and password are required")
\* faulty variant: a missing store is reported as bad credentials
NotConfiguredResult_AsCredentials == LoginFailure("Invalid username or password")
NotConfiguredResult == LoginFailure("User database not configured")
UnknownUserResult == LoginFailure("Invalid username or password")
WrongPasswordResult == LoginFailure("Invalid username or password")
InactiveResult == LoginFailure("User account is inactive")

---------------------------------------------------------------------------
(* The handlers, as functions of the state they read.  Each returns the    *)
(* value it returns to the caller and the session table it leaves.         *)

\* AuthenticationController.login; t1, t2, t3 are the clock values read by
\* _generate_session_token (line 253), login_time (113), last_activity (114)
login(username, password, um, store, sessions, t1, t2, t3) ==
    IF Falsy(username) \/ Falsy(password) THEN
        [result |-> InvalidInputResult,
         sessions |-> sessions]
    ELSE IF Falsy(um) THEN
        [result |-> NotConfiguredResult,
         sessions |-> sessions]
    ELSE LET found == get_user_by_username(store, username[1]) IN
    IF found = None THEN
        [result |-> UnknownUserResult,
         sessions |-> sessions]
    ELSE LET user == found[1]
             verified == _verify_password(password[1], user.password_hash) IN
    IF IsRaise(verified) THEN
        [result |-> verified,
         sessions |-> sessions]
    ELSE IF ~ verified.returned THEN
        [result |-> WrongPasswordResult,
         sessions |-> sessions]
    ELSE IF user.status # "active" THEN
        [result |-> InactiveResult,
         sessions |-> sessions]
    ELSE LET session_token == _generate_session_token(user.user_id, t1) IN
        [result |->
            [status |-> "success",
             message |-> "Login successful for " \o user.user_type,
             user_id |-> Some(user.user_id),
             user_type |-> Some(user.user_type),
             session_token |-> Some(session_token)],
         sessions |->
            DictSet(sessions, session_token,
                    [user_id |-> user.user_id,
                     username |-> username[1],
                     user_type |-> user.user_type,
                     login_time |-> t2,
                     last_activity |-> t3])]

\* faulty variants: logout reports success and keeps the entry; logout ends
\* every session of the token's user
logout_KeepsEntry(session_token, sessions) ==
    IF session_token \in DOMAIN sessions THEN
        [result |-> [status |-> "success", message |-> "Logout successful"],
         sessions |-> sessions]
    ELSE
        [result |-> [status |-> "failure", message |-> "Invalid session token"],
         sessions |-> sessions]
logout_AllOfUser(session_token, sessions) ==
    IF session_token \in DOMAIN sessions THEN
        [result |-> [status |-> "success", message |-> "Logout successful"],
         sessions |->
            [x \in {y \in DOMAIN sessions :
                      sessions[y].user_id # sessions[session_token].user_id}
                |-> sessions[x]]]
    ELSE
        [result |-> [status |-> "failure", message |-> "Invalid session token"],
         sessions |-> sessions]

\* AuthenticationController.logout
logout(session_token, sessions) ==
    IF session_token \in DOMAIN sessions THEN
        [result |-> [status |-> "success", message |-> "Logout successful"],
         sessions |-> DictDel(sessions, session_token)]
    ELSE
        [result |-> [status |-> "failure", message |-> "Invalid session token"],
         sessions |-> sessions]

VerifyFailure(message) ==
    [is_valid |-> FALSE, user_id |-> None, user_type |-> None,
     message |-> message]

\* faulty variant: expiry is measured from login_time, not last_activity
verify_session_AbsoluteExpiry(session_token, sessions, t1, t2) ==
    IF session_token \notin DOMAIN sessions THEN
        [result |-> VerifyFailure("Invalid or expired session"),
         sessions |-> sessions]
    ELSE LET session == sessions[session_token] IN
    IF SessionExpired(t1, session.login_time) THEN
        [result |-> VerifyFailure("Session expired"),
         sessions |-> DictDel(sessions, session_token)]
    ELSE
        [result |->
            [is_valid |-> TRUE,
             user_id |-> Some(session.user_id),
             user_type |-> Some(session.user_type),
             message |-> "Session is valid"],
         sessions |->
            DictSet(sessions, session_token,
                    [session EXCEPT !.last_activity = t2])]

\* AuthenticationController.verify_session; t1 and t2 are the clock values
\* read by the expiry test (line 179) and by the refresh (line 189)
verify_session(session_token, sessions, t1, t2) ==
    IF session_token \notin DOMAIN sessions THEN
        [result |-> VerifyFailure("Invalid or expired session"),
         sessions |-> sessions]
    ELSE LET session == sessions[session_token] IN
    IF SessionExpired(t1, session.last_activity) THEN
        [result |-> VerifyFailure("Session expired"),
         sessions |-> DictDel(sessions, session_token)]
    ELSE
        [result |->
            [is_valid |-> TRUE,
             user_id |-> Some(session.user_id),
             user_type |-> Some(session.user_type),
             message |-> "Session is valid"],
         sessions |->
            DictSet(sessions, session_token,
                    [session EXCEPT !.last_activity = t2])]

\* AuthenticationController.get_user_by_session
get_user_by_session(session_token, sessions) ==
    IF session_token \in DOMAIN sessions THEN
        LET session == sessions[session_token] IN
        Some([user_id |-> session.user_id,
              username |-> session.username,
              user_type |-> session.user_type])
    ELSE None

---------------------------------------------------------------------------
(* The sequential program: one caller at a time *)

\* the tokens a caller may present: those in the table, the one presented or
\* issued last (which may have left the table since), and one the controller
\* never issues (the digest of "0_0": no user has id 0).  logout is tried
\* with all of them, verify_session with the first two kinds and
\* get_user_by_session with the first and the last.
BogusToken == sha256(<<0, 0>>)
LastToken == IF "token" \in DOMAIN call THEN {call.token} ELSE {}
TokenArgs == (DOMAIN active_sessions) \cup LastToken \cup {BogusToken}
VerifyArgs == (DOMAIN active_sessions) \cup LastToken
LookupArgs == (DOMAIN active_sessions) \cup {BogusToken}

\* what call holds after a step that is no call of the controller
Environment == [op |-> "environment"]

NoThreads == <<>>

Init ==
    /\ user_model = None
    /\ active_sessions = <<>>
    /\ users = InitialUsers
    /\ now = 0
    /\ call = [op |-> "init"]
    /\ result = None
    /\ threads = NoThreads
    /\ detached = <<>>
    /\ start_sessions = <<>>

ConcUnchanged == UNCHANGED <<threads, detached, start_sessions>>

\* AuthenticationController.set_user_model
SetUserModel(um) ==
    /\ user_model' = um
    /\ call' = [op |-> "set_user_model"]
    /\ result' = None
    /\ UNCHANGED <<active_sessions, users, now>>
    /\ ConcUnchanged

\* between two calls the clock moves: time passes, or the clock is set
Tick(t) ==
    /\ t # now
    /\ now' = t
    /\ call' = Environment
    /\ result' = None
    /\ UNCHANGED <<user_model, active_sessions, users>>
    /\ ConcUnchanged

\* the store's owner replaces a user's record: deactivates the user and
\* takes the role away, or restores the record
UpdateUser(u, record) ==
    /\ users[u] # record
    /\ users' = [users EXCEPT ![u] = record]
    /\ call' = Environment
    /\ result' = None
    /\ UNCHANGED <<user_model, active_sessions, now>>
    /\ ConcUnchanged

\* a login that gets as far as the token reads the clock three times; the
\* others do not read it
Login(username, password) ==
    LET t1 == now
        first == login(username, password, user_model, users,
                       active_sessions, t1, t1, t1).result
        ok == ~ IsRaise(first) /\ first.status = "success"
        Reads == IF ok THEN ClockValues ELSE {now}
    IN
    \E t2, t3 \in Reads :
        LET out == login(username, password, user_model, users,
                         active_sessions, t1, t2, t3)
        IN  /\ Cardinality(DOMAIN out.sessions) <= MaxSessions
            /\ active_sessions' = out.sessions
            /\ result' = out.result
            /\ now' = IF ok THEN t3 ELSE now
            /\ call' = IF ok
                        THEN [op |-> "login", username |-> username,
                              password |-> password,
                              token |-> out.result.session_token[1]]
                        ELSE [op |-> "login", username |-> username,
                              password |-> password]
            /\ UNCHANGED <<user_model, users>>
            /\ ConcUnchanged

Logout(session_token) ==
    LET out == logout(session_token, active_sessions) IN
    /\ active_sessions' = out.sessions
    /\ result' = out.result
    /\ call' = [op |-> "logout", token |-> session_token]
    /\ UNCHANGED <<user_model, users, now>>
    /\ ConcUnchanged

\* faulty variant: a session of a user who is no longer active is dropped
VerifySession_Rechecks(session_token) ==
    LET known == session_token \in DOMAIN active_sessions
        revoked == /\ known
                   /\ users[active_sessions[session_token].username].status
                         # "active"
        out == IF revoked
               THEN [result |-> VerifyFailure("Invalid or expired session"),
                     sessions |-> DictDel(active_sessions, session_token)]
               ELSE verify_session(session_token, active_sessions, now, now)
    IN
    /\ active_sessions' = out.sessions
    /\ result' = out.result
    /\ call' = IF known
                THEN [op |-> "verify_session", token |-> session_token,
                      elapsed |-> now - active_sessions[session_token]
                                            .last_activity]
                ELSE [op |-> "verify_session", token |-> session_token]
    /\ UNCHANGED <<user_model, users, now>>
    /\ ConcUnchanged

\* a verify_session of a tracked token reads the clock for the expiry
\* test, and again for the refresh when the session has not expired
VerifySession(session_token) ==
    LET t1 == now
        refreshed == verify_session(session_token, active_sessions, t1, t1)
                        .result.is_valid
        Reads == IF refreshed THEN ClockValues ELSE {now}
    IN
    \E t2 \in Reads :
        LET out == verify_session(session_token, active_sessions, t1, t2)
        IN  /\ active_sessions' = out.sessions
            /\ result' = out.result
            /\ now' = IF refreshed THEN t2 ELSE now
            /\ call' = IF session_token \in DOMAIN active_sessions
                        THEN [op |-> "verify_session", token |-> session_token,
                              elapsed |-> t1 - active_sessions[session_token]
                                                   .last_activity]
                        ELSE [op |-> "verify_session", token |-> session_token]
            /\ UNCHANGED <<user_model, users>>
            /\ ConcUnchanged

\* faulty variant: the lookup drops a session that has expired
GetUserBySession_Expiring(session_token) ==
    LET expired == /\ session_token \in DOMAIN active_sessions
                   /\ SessionExpired(now, active_sessions[session_token]
                                              .last_activity)
    IN
    /\ active_sessions' = IF expired
                          THEN DictDel(active_sessions, session_token)
                          ELSE active_sessions
    /\ result' = IF expired THEN None
                 ELSE get_user_by_session(session_token, active_sessions)
    /\ call' = [op |-> "get_user_by_session", token |-> session_token]
    /\ UNCHANGED <<user_model, users, now>>
    /\ ConcUnchanged

\* faulty variant: the lookup counts as activity
GetUserBySession_Touching(session_token) ==
    /\ active_sessions' =
          IF session_token \in DOMAIN active_sessions
          THEN [active_sessions EXCEPT ![session_token].last_activity = now]
          ELSE active_sessions
    /\ result' = get_user_by_session(session_token, active_sessions)
    /\ call' = [op |-> "get_user_by_session", token |-> session_token]
    /\ UNCHANGED <<user_model, users, now>>
    /\ ConcUnchanged

GetUserBySession(session_token) ==
    /\ active_sessions' = active_sessions
    /\ result' = get_user_by_session(session_token, active_sessions)
    /\ call' = [op |-> "get_user_by_session", token |-> session_token]
    /\ UNCHANGED <<user_model, users, now>>
    /\ ConcUnchanged

Next ==
    \/ \E um \in UserModelArgs : SetUserModel(um)
    \/ \E t \in ClockValues : Tick(t)
    \/ \E u \in Managed : \E record \in StoreVersions(u) : UpdateUser(u, record)
    \/ \E a \in LoginArgs : Login(a[1], a[2])
    \/ \E tok \in TokenArgs : Logout(tok)
    \/ \E tok \in VerifyArgs : VerifySession(tok)
    \/ \E tok \in LookupArgs : GetUserBySession(tok)

Spec == Init /\ [][Next]_vars

---------------------------------------------------------------------------
(* Concurrent callers.  The controller takes no lock, so two calls made    *)
(* from different threads interleave between any two accesses to the       *)
(* session table.  Each action below is one such access of one caller,     *)
(* named after the source line that makes it.  A caller's local variable   *)
(* `session` is a reference to the session dict: it keeps reading and      *)
(* writing that dict after another caller deleted it from the table.       *)

\* the number of concurrent callers
NumThreads == 2

Threads == 1..NumThreads

\* the table after alice logged in at time 0
ConcStartSessions ==
    login(Some("alice"), Some("pwA"), Some("user_model"), InitialUsers,
          <<>>, 0, 0, 0).sessions

\* the calls a caller may make on the token: a logout, or a verify_session
\* to which datetime.now() will return t1 at line 179 and t2 at line 189
\* (each caller reads the clock for itself; logout does not read it)
ConcCalls(tok) ==
    {[op |-> "logout", token |-> tok, result |-> None, pc |-> "l141",
      t1 |-> 0, t2 |-> 0]}
    \cup {[op |-> "verify_session", token |-> tok, result |-> None,
           pc |-> "v168", t1 |-> a, t2 |-> b] : a, b \in ClockValues}

ConcInit ==
    /\ user_model = Some("user_model")
    /\ users = InitialUsers
    /\ active_sessions = ConcStartSessions
    /\ start_sessions = ConcStartSessions
    /\ detached = <<>>
    /\ now = 0
    /\ call = [op |-> "concurrent"]
    /\ result = None
    /\ \E tok \in DOMAIN ConcStartSessions :
          threads \in [Threads -> ConcCalls(tok)]

SeqUnchanged == UNCHANGED <<user_model, users, now, call, result, start_sessions>>

\* the dict a caller's reference points to
Deref(tok) ==
    IF tok \in DOMAIN active_sessions THEN active_sessions[tok] ELSE detached[tok]

\* line 168: if session_token not in self.active_sessions: return {...}
VerifyCheck(t) ==
    /\ threads[t].pc = "v168"
    /\ threads' = [threads EXCEPT ![t] =
          IF threads[t].token \notin DOMAIN active_sessions
          THEN [@ EXCEPT !.pc = "done",
                         !.result = VerifyFailure("Invalid or expired session")]
          ELSE [@ EXCEPT !.pc = "v176"]]
    /\ UNCHANGED <<active_sessions, detached>>
    /\ SeqUnchanged

\* line 176: session = self.active_sessions[session_token]  (KeyError if gone)
VerifyFetch(t) ==
    /\ threads[t].pc = "v176"
    /\ threads' = [threads EXCEPT ![t].pc =
          IF threads[t].token \in DOMAIN active_sessions THEN "v179" ELSE "fault"]
    /\ UNCHANGED <<active_sessions, detached>>
    /\ SeqUnchanged

\* line 179: if (datetime.now() - session['last_activity']) > timedelta(...)
VerifyExpiry(t) ==
    /\ threads[t].pc = "v179"
    /\ threads' = [threads EXCEPT ![t].pc =
          IF SessionExpired(threads[t].t1,
                            Deref(threads[t].token).last_activity)
          THEN "v180" ELSE "v189"]
    /\ UNCHANGED <<active_sessions, detached>>
    /\ SeqUnchanged

\* lines 180-186: del self.active_sessions[session_token]  (KeyError if gone)
VerifyEvict(t) ==
    LET tok == threads[t].token IN
    /\ threads[t].pc = "v180"
    /\ IF tok \in DOMAIN active_sessions
       THEN /\ active_sessions' = DictDel(active_sessions, tok)
            /\ detached' = DictSet(detached, tok, active_sessions[tok])
            /\ threads' = [threads EXCEPT ![t] =
                  [@ EXCEPT !.pc = "done",
                            !.result = VerifyFailure("Session expired")]]
       ELSE /\ threads' = [threads EXCEPT ![t].pc = "fault"]
            /\ UNCHANGED <<active_sessions, detached>>
    /\ SeqUnchanged

\* lines 189-196: session['last_activity'] = datetime.now(); return {...}
VerifyRefresh(t) ==
    LET tok == threads[t].token
        session == Deref(tok)
        refreshed == [session EXCEPT !.last_activity = threads[t].t2]
    IN
    /\ threads[t].pc = "v189"
    /\ IF tok \in DOMAIN active_sessions
       THEN /\ active_sessions' = DictSet(active_sessions, tok, refreshed)
            /\ UNCHANGED detached
       ELSE /\ detached' = DictSet(detached, tok, refreshed)
            /\ UNCHANGED active_sessions
    /\ threads' = [threads EXCEPT ![t] =
          [@ EXCEPT !.pc = "done",
                    !.result = [is_valid |-> TRUE,
                                user_id |-> Some(session.user_id),
                                user_type |-> Some(session.user_type),
                                message |-> "Session is valid"]]]
    /\ SeqUnchanged

\* line 141: if session_token in self.active_sessions:  (else lines 148-151)
LogoutCheck(t) ==
    /\ threads[t].pc = "l141"
    /\ threads' = [threads EXCEPT ![t] =
          IF threads[t].token \in DOMAIN active_sessions
          THEN [@ EXCEPT !.pc = "l142"]
          ELSE [@ EXCEPT !.pc = "done",
                         !.result = [status |-> "failure",
                                     message |-> "Invalid session token"]]]
    /\ UNCHANGED <<active_sessions, detached>>
    /\ SeqUnchanged

\* lines 142-146: del self.active_sessions[session_token]  (KeyError if gone)
LogoutDel(t) ==
    LET tok == threads[t].token IN
    /\ threads[t].pc = "l142"
    /\ IF tok \in DOMAIN active_sessions
       THEN /\ active_sessions' = DictDel(active_sessions, tok)
            /\ detached' = DictSet(detached, tok, active_sessions[tok])
            /\ threads' = [threads EXCEPT ![t] =
                  [@ EXCEPT !.pc = "done",
                            !.result = [status |-> "success",
                                        message |-> "Logout successful"]]]
       ELSE /\ threads' = [threads EXCEPT ![t].pc = "fault"]
            /\ UNCHANGED <<active_sessions, detached>>
    /\ SeqUnchanged

ConcNext ==
    \E t \in Threads :
        \/ VerifyCheck(t)
        \/ VerifyFetch(t)
        \/ VerifyExpiry(t)
        \/ VerifyEvict(t)
        \/ VerifyRefresh(t)
        \/ LogoutCheck(t)
        \/ LogoutDel(t)

SpecConc == ConcInit /\ [][ConcNext]_vars

\* The calls of `threads` made one after another, in the order `order`,
\* each as the sequential handler: the table left and each call's result.
RECURSIVE Serial(_, _, _)
Serial(order, sessions, results) ==
    IF order = <<>> THEN [sessions |-> sessions, results |-> results]
    ELSE LET t == Head(order)
             c == threads[t]
             out == IF c.op = "logout"
                    THEN logout(c.token, sessions)
                    ELSE verify_session(c.token, sessions, c.t1, c.t2)
         IN  Serial(Tail(order), out.sessions,
                    [results EXCEPT ![t] = out.result])

Orders == {o \in [Threads -> Threads] : \A i, j \in Threads : o[i] = o[j] => i = j}

AllDone == \A t \in DOMAIN threads : threads[t].pc = "done"

Serializable ==
    \E o \in Orders :
        LET s == Serial(o, start_sessions, [t \in Threads |-> None]) IN
        /\ s.sessions = active_sessions
        /\ \A t \in Threads : s.results[t] = threads[t].result

---------------------------------------------------------------------------
(* Properties.  In an action property, the unprimed variables are the      *)
(* state a call found and the primed ones the state it left; call' names   *)
(* the operation that made the step and result' what it returned.          *)

IsLogin(c) == c.op = "login"
IsLogout(c) == c.op = "logout"
IsVerify(c) == c.op = "verify_session"
IsGetUser(c) == c.op = "get_user_by_session"
Tracked(tok) == tok \in DOMAIN active_sessions
Idle(tok) == now - active_sessions[tok].last_activity
Empty(s) == s = None \/ s = Some("")
\* a login that returned a result, and one that returned success
Returned(r) == "status" \in DOMAIN r
LoginOk(c, r) == IsLogin(c) /\ Returned(r) /\ r.status = "success"

\* C1: every successful login returns a token that no session in the table
\* already has, and adds exactly one entry to the table without replacing
\* one.  (Violated: two logins of one user that read the same clock value
\* get the same token, and the second overwrites the first's entry.)
C1_LoginTokenFresh ==
    [][ LoginOk(call', result') =>
          /\ ~ Tracked(result'.session_token[1])
          /\ Cardinality(DOMAIN active_sessions')
                = Cardinality(DOMAIN active_sessions) + 1
          /\ \A tok \in DOMAIN active_sessions :
                /\ tok \in DOMAIN active_sessions'
                /\ active_sessions'[tok] = active_sessions[tok] ]_vars

\* C2: verify_session on a tracked token whose last activity lies more than
\* the timeout before the clock value of the call returns is_valid = FALSE
\* with 'Session expired' and removes the entry, and the next verify_session
\* on that token returns 'Invalid or expired session'.
C2_ExpiredThenInvalid ==
    [][ IsVerify(call') =>
          /\ (Tracked(call'.token) /\ Idle(call'.token) > SESSION_TIMEOUT) =>
                /\ result' = VerifyFailure("Session expired")
                /\ active_sessions' = DictDel(active_sessions, call'.token)
                /\ verify_session(call'.token, active_sessions', now', now').result
                      = VerifyFailure("Invalid or expired session")
          /\ (IsVerify(call) /\ call.token = call'.token
                /\ result.message = "Session expired") =>
                result' = VerifyFailure("Invalid or expired session") ]_vars

\* C2 witness: a verify_session has just reported 'Session expired' and the
\* token is gone from the table.
C2_Witness ==
    /\ IsVerify(call)
    /\ result = VerifyFailure("Session expired")
    /\ ~ Tracked(call.token)

\* C3: verify_session on a tracked token whose last activity lies less than
\* the timeout before the clock value of the call returns is_valid = TRUE,
\* however long ago the login was, and restarts the idle period at the
\* clock value of the refresh.
C3_SlidingWindow ==
    [][ (IsVerify(call') /\ Tracked(call'.token)
            /\ Idle(call'.token) < SESSION_TIMEOUT) =>
          /\ result'.is_valid
          /\ call'.token \in DOMAIN active_sessions'
          /\ active_sessions'[call'.token].last_activity = now' ]_vars

\* C3 witness: a verification succeeded less than the timeout after the
\* last activity, and the clock shows more than the timeout since login.
C3_Witness ==
    /\ IsVerify(call)
    /\ result.is_valid
    /\ call.elapsed >= 0
    /\ call.elapsed < SESSION_TIMEOUT
    /\ active_sessions[call.token].last_activity = now
    /\ now - active_sessions[call.token].login_time > SESSION_TIMEOUT

\* C4: logout of a token that is not in the table returns the failure
\* 'Invalid session token' and leaves the table as it is; logout of a token
\* in the table returns success and removes it; and verify_session on a
\* token that logout removed returns is_valid = FALSE from then on.
\* (Violated: a login of the same user that reads the clock value of the
\* removed token's login puts that token back; see C1.)
C4_LogoutRemovesForGood ==
    [][ /\ IsLogout(call') =>
              IF Tracked(call'.token)
              THEN /\ result' = [status |-> "success",
                                 message |-> "Logout successful"]
                   /\ active_sessions' = DictDel(active_sessions, call'.token)
              ELSE /\ result' = [status |-> "failure",
                                 message |-> "Invalid session token"]
                   /\ active_sessions' = active_sessions
        /\ (IsLogout(call) /\ result.status = "success") =>
              ~ verify_session(call.token, active_sessions', now', now')
                    .result.is_valid ]_vars

\* C5: get_user_by_session leaves the session table as it is, and a
\* session that was only looked up is still reported expired by the next
\* verify_session once its last activity lies more than the timeout before
\* the clock value of that call.
C5_LookupIsPure ==
    [][ /\ IsGetUser(call') => active_sessions' = active_sessions
        /\ (IsGetUser(call) /\ IsVerify(call') /\ Tracked(call'.token)
              /\ Idle(call'.token) > SESSION_TIMEOUT) =>
              result' = VerifyFailure("Session expired") ]_vars

\* C5 witness: a lookup has just returned the owner of a session that has
\* been idle for some time and is still in the table.
C5_Witness ==
    /\ IsGetUser(call)
    /\ Tracked(call.token)
    /\ result = Some([user_id |-> active_sessions[call.token].user_id,
                      username |-> active_sessions[call.token].username,
                      user_type |-> active_sessions[call.token].user_type])
    /\ Idle(call.token) > 0

\* C6: with concurrent callers, no verify_session or logout call raises,
\* and when all have returned, the table and the results are those of the
\* calls made one after another in some order.  (Violated: the check and
\* the access it guards are separate steps, with no lock between them.)
C6_ConcurrentCallsAtomic ==
    /\ \A t \in DOMAIN threads : threads[t].pc # "fault"
    /\ (threads # NoThreads /\ AllDone) => Serializable

\* C7: verify_session right after a successful login (the clock still
\* showing what the login read last), on the token it returned, returns
\* is_valid = TRUE with the user id and the role of the login result.
C7_VerifyAfterLogin ==
    [][ (LoginOk(call, result)
            /\ IsVerify(call') /\ Some(call'.token) = result.session_token) =>
          /\ result'.is_valid
          /\ result'.user_id = result.user_id
          /\ result'.user_type = result.user_type
          /\ result'.user_id = Some(users[call.username[1]].user_id)
          /\ result'.user_type = Some(users[call.username[1]].user_type) ]_vars

\* C7 witness: a verification succeeded at the clock value of the login,
\* with no idle time.
C7_Witness ==
    /\ IsVerify(call)
    /\ result.is_valid
    /\ call.elapsed = 0
    /\ active_sessions[call.token].login_time = now
    /\ active_sessions[call.token].last_activity = now
    /\ result.user_id = Some(active_sessions[call.token].user_id)

\* C8: with a user store configured and both arguments non-empty, login
\* with a username the store does not have and login of a stored user with
\* a password that does not match return the same result, field for field
\* (failure, 'Invalid username or password', no user id, role or token),
\* and leave the session table as it is.  (Violated: a password that UTF-8
\* cannot encode is refused with that result for an unknown username, and
\* raises UnicodeEncodeError for a stored one.)
C8_NoUsernameEnumeration ==
    [][ (IsLogin(call') /\ ~ Empty(call'.username) /\ ~ Empty(call'.password)
            /\ ~ Falsy(user_model)
            /\ \/ call'.username[1] \notin DOMAIN users
               \/ users[call'.username[1]].password_hash
                     # sha256(call'.password[1])) =>
          /\ result' = [status |-> "failure",
                        message |-> "Invalid username or password",
                        user_id |-> None, user_type |-> None,
                        session_token |-> None]
          /\ active_sessions' = active_sessions ]_vars

\* C9: login returns 'User account is inactive' exactly when the user is in
\* the store, the password matches the stored hash and the status is not
\* "active"; it then creates no session; and a wrong password on such an
\* account returns 'Invalid username or password'.  (Violated: a wrong
\* password that UTF-8 cannot encode raises instead; see C8.)
C9_InactiveOnlyWithRightPassword ==
    [][ (IsLogin(call') /\ ~ Empty(call'.username) /\ ~ Empty(call'.password)
            /\ ~ Falsy(user_model)) =>
          LET name == call'.username[1]
              known == name \in DOMAIN users
              matches == users[name].password_hash = sha256(call'.password[1])
              inactive == users[name].status # "active"
          IN  /\ (Returned(result')
                     /\ result'.message = "User account is inactive")
                    <=> (known /\ matches /\ inactive)
              /\ (known /\ inactive) =>
                    /\ ~ LoginOk(call', result')
                    /\ active_sessions' = active_sessions
              /\ (known /\ inactive /\ ~ matches) =>
                    /\ Returned(result')
                    /\ result'.message = "Invalid username or password" ]_vars

\* C10: login with an empty or missing username or password returns the
\* failure 'Username and password are required' and leaves the session
\* table as it is, with or without a user store and whatever the store
\* holds.
C10_EmptyInputRejected ==
    [][ (IsLogin(call') /\ (Empty(call'.username) \/ Empty(call'.password))) =>
          /\ result' = [status |-> "failure",
                        message |-> "Username and password are required",
                        user_id |-> None, user_type |-> None,
                        session_token |-> None]
          /\ active_sessions' = active_sessions ]_vars

\* C10 witness: a stored user's name with an empty password has just been
\* refused while the store is configured and holds that user.
C10_Witness ==
    /\ IsLogin(call)
    /\ call.username = Some("alice")
    /\ call.password = Some("")
    /\ result.message = "Username and password are required"
    /\ user_model = Some("user_model")
    /\ users["alice"].status = "active"

\* C11: the table starts empty; a token enters the table only by a
\* successful login, which returns that token; a successful logout and a
\* verify_session that reports 'Session expired' leave their token out of
\* the table.
C11_SessionsComeFromLogin ==
    [][ /\ call.op = "init" => active_sessions = <<>>
        /\ \A tok \in (DOMAIN active_sessions') \ (DOMAIN active_sessions) :
              /\ LoginOk(call', result')
              /\ result'.session_token = Some(tok)
        /\ (IsLogout(call') /\ result'.status = "success") =>
              call'.token \notin DOMAIN active_sessions'
        /\ (IsVerify(call') /\ result'.message = "Session expired") =>
              call'.token \notin DOMAIN active_sessions' ]_vars

\* C11 witness: a successful logout has just removed one of two sessions.
C11_Witness ==
    /\ IsLogout(call)
    /\ result.status = "success"
    /\ ~ Tracked(call.token)
    /\ active_sessions # <<>>

\* C12: no step lowers the last_activity of a session, and a verify_session
\* that returns is_valid = TRUE leaves its session's last_activity at the
\* current time.  (Violated: the refresh stores whatever the wall clock
\* shows, which may be earlier than what it showed at the last activity.)
C12_LastActivityMonotone ==
    [][ /\ \A tok \in (DOMAIN active_sessions) \cap (DOMAIN active_sessions') :
              active_sessions'[tok].last_activity
                  >= active_sessions[tok].last_activity
        /\ (IsVerify(call') /\ result'.is_valid) =>
              active_sessions'[call'.token].last_activity = now' ]_vars

\* C13: login with non-empty arguments and no user store configured
\* (user_model is None, or an object that is false in a boolean context)
\* returns the failure 'User database not configured' with no user id, role
\* or token, and leaves the session table as it is.
C13_NotConfigured ==
    [][ (IsLogin(call') /\ ~ Empty(call'.username) /\ ~ Empty(call'.password)
            /\ Falsy(user_model)) =>
          /\ result' = [status |-> "failure",
                        message |-> "User database not configured",
                        user_id |-> None, user_type |-> None,
                        session_token |-> None]
          /\ active_sessions' = active_sessions ]_vars

\* C13 witness: a stored user's credentials have just been refused for
\* want of a user store, with sessions in the table.
C13_Witness ==
    /\ IsLogin(call)
    /\ call.username = Some("alice")
    /\ call.password = Some("pwA")
    /\ user_model = None
    /\ result.message = "User database not configured"
    /\ active_sessions # <<>>

\* C14: a login that does not return success, for any of the four reasons
\* it reports or because it raises, leaves the whole session table as it
\* is; a login that succeeds sets the entry of the token it returns and
\* leaves every other entry as it is.
C14_LoginFrame ==
    [][ IsLogin(call') =>
          IF LoginOk(call', result')
          THEN LET tok == result'.session_token[1] IN
               /\ DOMAIN active_sessions' = (DOMAIN active_sessions) \cup {tok}
               /\ \A other \in (DOMAIN active_sessions) \ {tok} :
                     active_sessions'[other] = active_sessions[other]
          ELSE /\ active_sessions' = active_sessions
               /\ Returned(result') =>
                     /\ result'.status = "failure"
                     /\ result'.message \in
                           {"Username and password are required",
                            "User database not configured",
                            "Invalid username or password",
                            "User account is inactive"} ]_vars

\* C14 witness: a successful login has just added a second session.
C14_Witness ==
    /\ LoginOk(call, result)
    /\ Cardinality(DOMAIN active_sessions) = 2

\* C15: verify_session on a tracked token that has not been idle for more
\* than the timeout returns is_valid = TRUE with the user id and role of
\* the session entry, whatever the user store holds for that user by then;
\* a login of a stored user whose status is not "active" does not succeed
\* and leaves the table as it is.
C15_SessionOutlivesUserRecord ==
    [][ /\ (IsVerify(call') /\ Tracked(call'.token)
              /\ Idle(call'.token) <= SESSION_TIMEOUT) =>
              /\ result'.is_valid
              /\ result'.user_id = Some(active_sessions[call'.token].user_id)
              /\ result'.user_type = Some(active_sessions[call'.token].user_type)
        /\ (IsLogin(call') /\ ~ Empty(call'.username) /\ ~ Empty(call'.password)
              /\ call'.username[1] \in DOMAIN users
              /\ users[call'.username[1]].status # "active") =>
              /\ ~ LoginOk(call', result')
              /\ active_sessions' = active_sessions ]_vars

\* C15 witness: a verify_session has just succeeded, with the role given
\* at login, for a user whom the store has since deactivated and given
\* another role.
C15_Witness ==
    /\ IsVerify(call)
    /\ result.is_valid
    /\ users[active_sessions[call.token].username].status = "inactive"
    /\ result.user_type = Some("Admin")
    /\ users[active_sessions[call.token].username].user_type = "Member"

\* C16: an entry leaves the table only by a logout or a verify_session on
\* its token, however long it has been idle; get_user_by_session returns
\* the stored user id, username and role of every token in the table, and
\* None exactly for the tokens that are not in it.
C16_ExpiredSessionsLinger ==
    [][ /\ \A tok \in (DOMAIN active_sessions) \ (DOMAIN active_sessions') :
              /\ IsLogout(call') \/ IsVerify(call')
              /\ call'.token = tok
        /\ IsGetUser(call') =>
              IF Tracked(call'.token)
              THEN result' =
                     Some([user_id |-> active_sessions[call'.token].user_id,
                           username |-> active_sessions[call'.token].username,
                           user_type |-> active_sessions[call'.token].user_type])
              ELSE result' = None ]_vars

\* C16 witness: a lookup has just returned the owner of a session that has
\* been idle for more than the timeout.
C16_Witness ==
    /\ IsGetUser(call)
    /\ Tracked(call.token)
    /\ Idle(call.token) > SESSION_TIMEOUT
    /\ result # None
    /\ result[1].username = active_sessions[call.token].username

\* C17: the expiry test of verify_session is strict.  A tracked token whose
\* last activity lies exactly SESSION_TIMEOUT minutes before the clock
\* value of the call is reported valid, stays in the table and has its last
\* activity set to the clock value of the refresh; a tracked token gets
\* 'Session expired' and is removed exactly when the difference is more
\* than SESSION_TIMEOUT minutes.
C17_ExpiryIsStrict ==
    [][ (IsVerify(call') /\ Tracked(call'.token)) =>
          /\ Idle(call'.token) = SESSION_TIMEOUT =>
                /\ result'.is_valid
                /\ call'.token \in DOMAIN active_sessions'
                /\ active_sessions'[call'.token].last_activity = now'
          /\ Idle(call'.token) > SESSION_TIMEOUT <=>
                /\ ~ result'.is_valid
                /\ result'.message = "Session expired"
                /\ call'.token \notin DOMAIN active_sessions' ]_vars

\* C17 witness: a verify_session has just accepted and refreshed a session
\* that had been idle for exactly SESSION_TIMEOUT minutes.
C17_Witness ==
    /\ IsVerify(call)
    /\ result.is_valid
    /\ call.elapsed = SESSION_TIMEOUT
    /\ active_sessions[call.token].last_activity = now

\* C18: a logout or a verify_session, whatever it answers, leaves the entry
\* of every token other than the one it was given in the table and
\* unchanged, the other sessions of the same user included.
C18_SessionsIndependent ==
    [][ (IsLogout(call') \/ IsVerify(call')) =>
          \A other \in (DOMAIN active_sessions) \ {call'.token} :
              /\ other \in DOMAIN active_sessions'
              /\ active_sessions'[other] = active_sessions[other] ]_vars

\* C18 witness: a session has just been logged out while another session of
\* the same user is still in the table.
C18_Witness ==
    /\ IsLogout(call)
    /\ result.status = "success"
    /\ \E other \in DOMAIN active_sessions :
          /\ other # call.token
          /\ active_sessions[other].user_id = call.token.sha256[1]

\* C19: every entry of the table has login_time <= last_activity; an entry
\* that enters the table is written by the successful login that returns
\* its token, with the user id and role of the result and the username of
\* the call; and no step other than a successful login returning the same
\* token changes the user id, username, role or login_time of an entry.
\* (Violated: login_time and last_activity are two reads of the wall clock,
\* and so is every refresh; a later read may show an earlier time.)
C19_EntryFieldsFixed ==
    /\ [](\A tok \in DOMAIN active_sessions :
             active_sessions[tok].login_time <= active_sessions[tok].last_activity)
    /\ [][ /\ \A tok \in (DOMAIN active_sessions') \ (DOMAIN active_sessions) :
                 /\ LoginOk(call', result')
                 /\ result'.session_token = Some(tok)
                 /\ Some(active_sessions'[tok].user_id) = result'.user_id
                 /\ Some(active_sessions'[tok].user_type) = result'.user_type
                 /\ Some(active_sessions'[tok].username) = call'.username
           /\ \A tok \in (DOMAIN active_sessions) \cap (DOMAIN active_sessions') :
                 \/ LoginOk(call', result') /\ result'.session_token = Some(tok)
                 \/ /\ active_sessions'[tok].user_id = active_sessions[tok].user_id
                    /\ active_sessions'[tok].username = active_sessions[tok].username
                    /\ active_sessions'[tok].user_type = active_sessions[tok].user_type
                    /\ active_sessions'[tok].login_time = active_sessions[tok].login_time ]_vars

\* C20: login returns a session token exactly when it returns the status
\* "success"; the token of a successful login is then a key of the table,
\* and its entry has the user id and role of the result; the result of a
\* failing login has no user id, no role and no token.
C20_LoginResultShape ==
    [][ (IsLogin(call') /\ Returned(result')) =>
          /\ result'.status \in {"success", "failure"}
          /\ result'.session_token # None <=> result'.status = "success"
          /\ result'.status = "success" =>
                LET tok == result'.session_token[1] IN
                /\ tok \in DOMAIN active_sessions'
                /\ Some(active_sessions'[tok].user_id) = result'.user_id
                /\ Some(active_sessions'[tok].user_type) = result'.user_type
          /\ result'.status = "failure" =>
                /\ result'.user_id = None
                /\ result'.user_type = None
                /\ result'.session_token = None ]_vars

\* C20 witness: a login has just succeeded for alice and its token is in
\* the table with her id and role.
C20_Witness ==
    /\ LoginOk(call, result)
    /\ result.user_type = Some("Admin")
    /\ result.session_token[1] \in DOMAIN active_sessions
    /\ Some(active_sessions[result.session_token[1]].user_id) = result.user_id

====
